---- MODULE Spec2Model ----
(***************************************************************************)
(* A model of gemini-music: input classification, remote fetch, the       *)
(* one/two/three stage prompt chain and the directory batch of            *)
(* src/gemini_music/services.py, driven by src/gemini_music/cli.py.       *)
(* Texts are strings, so concatenation, lower-casing and prefix matching  *)
(* are computed character by character.                                   *)
(***************************************************************************)
EXTENDS Integers, Sequences, FiniteSets, TLC

VARIABLES
  pc,        \* position of the single thread of control
  top,       \* entry point of the behaviour: "classify", "api", "rt", "cli"
  ctx,       \* caller of the chain executor: "api", "dir", "file", "youtube"
  args,      \* parsed command line: input, prompt, prompt_type, list_prompts
  env,       \* GOOGLE_API_KEY present, client construction succeeds
  fsKind,    \* what the input path names on the filesystem
  listing,   \* entries of the directory, in iterdir() order
  fsChecks,  \* filesystem checks made by detect_input_type, in order
  inputType, \* value returned by detect_input_type
  spec,      \* (prompt_data, is_multi_step, steps) of determine_prompt
  op,        \* AudioProcessor method that was invoked
  file,      \* name of the file the chain executor works on
  prompts,   \* step prompts handed to the executor
  resp,      \* stage responses obtained so far in the running chain
  idx,       \* number of directory entries already enumerated
  results,   \* results list of the running process_directory*
  retval,    \* value returned by the last finished call
  exc,       \* exception in flight
  oracle,    \* outcomes of the inference collaborator decided so far
  calls,     \* generate_content calls issued, in order
  tmp,       \* temporary directory of download_from_youtube
  out,       \* lines printed to the output stream
  err,       \* lines printed to the error stream
  exitCode,  \* process exit status, -1 while running
  first      \* result of the first half of a round trip

vars == <<pc, top, ctx, args, env, fsKind, listing, fsChecks, inputType, spec,
          op, file, prompts, resp, idx, results, retval, exc, oracle, calls,
          tmp, out, err, exitCode, first>>

(***************************************************************************)
(* Bounds                                                                  *)
(***************************************************************************)
MaxEntries == 3      \* longest directory listing
MaxLeft == 2         \* most files the fetch mechanism leaves behind

(***************************************************************************)
(* Strings                                                                 *)
(***************************************************************************)
Lower == "abcdefghijklmnopqrstuvwxyz"
Upper == "ABCDEFGHIJKLMNOPQRSTUVWXYZ"
Digits == "0123456789"

CharsOf(s) == {SubSeq(s, i, i) : i \in 1..Len(s)}

StartsWith(s, p) == Len(s) >= Len(p) /\ SubSeq(s, 1, Len(p)) = p

Drop(s, n) == SubSeq(s, n + 1, Len(s))

\* str.lower() on one character
LowerChar(c) ==
  IF \E i \in 1..Len(Upper) : SubSeq(Upper, i, i) = c
  THEN LET i == CHOOSE j \in 1..Len(Upper) : SubSeq(Upper, j, j) = c
       IN SubSeq(Lower, i, i)
  ELSE c

RECURSIVE ToLower(_)
ToLower(s) == IF Len(s) = 0 THEN "" ELSE LowerChar(Head(s)) \o ToLower(Tail(s))

\* str.rfind(c): the last position of c in s, 0 when absent
RFind(s, c) ==
  LET P == {i \in 1..Len(s) : SubSeq(s, i, i) = c}
  IN IF P = {} THEN 0 ELSE CHOOSE i \in P : \A j \in P : j <= i

RECURSIVE StripSlashes(_)
StripSlashes(s) ==
  IF Len(s) > 1 /\ SubSeq(s, Len(s), Len(s)) = "/"
  THEN StripSlashes(SubSeq(s, 1, Len(s) - 1))
  ELSE s

\* Path(p).name: the final path component
PathName(p) == LET q == StripSlashes(p) IN Drop(q, RFind(q, "/"))

\* Path.suffix: from the last dot of the name, unless the dot is the first
\* or the last character of the name
Suffix(name) ==
  LET i == RFind(name, ".")
  IN IF 1 < i /\ i < Len(name) THEN Drop(name, i - 1) ELSE ""

(***************************************************************************)
(* config.py                                                               *)
(***************************************************************************)
EXTENSIONS == {".mp3", ".wav", ".m4a", ".flac", ".ogg", ".aac"}

MIME_TYPES == {<<"mp3", "audio/mpeg">>, <<"wav", "audio/wav">>,
               <<"m4a", "audio/mp4">>, <<"flac", "audio/flac">>,
               <<"ogg", "audio/ogg">>, <<"aac", "audio/aac">>}

PromptType == {"analyze", "eval", "suno"}

\* [a-zA-Z0-9_-]
IdChars == CharsOf(Lower) \cup CharsOf(Upper) \cup CharsOf(Digits) \cup {"_", "-"}

\* what follows (?:https?://)(?:www\.)? in each of YouTubePatterns.PATTERNS
PATTERNS == <<"youtube.com/watch?v=", "youtu.be/", "youtube.com/embed/",
              "youtube.com/v/">>

\* re.match of one pattern: anchored at the start only; the id group needs
\* one character, whatever follows is ignored
MatchPattern(tail, url) ==
  \E scheme \in {"http://", "https://"} :
    /\ StartsWith(url, scheme)
    /\ \E www \in {"www.", ""} :
         LET rest == Drop(url, Len(scheme))
         IN /\ StartsWith(rest, www \o tail)
            /\ Len(rest) > Len(www \o tail)
            /\ SubSeq(rest, Len(www \o tail) + 1, Len(www \o tail) + 1) \in IdChars

(***************************************************************************)
(* services.py: AudioDownloader.is_youtube_url, InputValidator             *)
(***************************************************************************)
NoExc == [type |-> "None", msg |-> ""]

Raise(t, m) == [type |-> t, msg |-> m]

is_youtube_url(url) == \E i \in 1..Len(PATTERNS) : MatchPattern(PATTERNS[i], url)

\* variant: the suffix is compared without lower-casing it
IsAudioFile_CaseSensitive(name, kind) == kind = "file" /\ Suffix(name) \in EXTENSIONS

\* variant: the is_file() test is left out
IsAudioFile_AnyKind(name, kind) == ToLower(Suffix(name)) \in EXTENSIONS

\* is the entry a regular file with a recognized audio extension
IsAudioFile(name, kind) == kind = "file" /\ ToLower(Suffix(name)) \in EXTENSIONS

\* variant: the existence check comes before the URL test
detect_input_type_ExistsFirst(input_path, kind) ==
  IF kind = "absent"
  THEN [ret |-> "",
        exc |-> Raise("InvalidInputError",
                      "Path '" \o input_path \o "' does not exist"),
        checks |-> <<"exists">>]
  ELSE IF is_youtube_url(input_path)
  THEN [ret |-> "youtube", exc |-> NoExc, checks |-> <<"exists">>]
  ELSE IF kind = "file" /\ ToLower(Suffix(PathName(input_path))) \in EXTENSIONS
  THEN [ret |-> "file", exc |-> NoExc, checks |-> <<"exists", "is_file">>]
  ELSE IF kind = "dir"
  THEN [ret |-> "directory", exc |-> NoExc,
        checks |-> <<"exists", "is_file", "is_dir">>]
  ELSE [ret |-> "",
        exc |-> Raise("InvalidInputError",
                      "'" \o input_path \o
                      "' is not a valid audio file, directory, or YouTube URL"),
        checks |-> <<"exists", "is_file", "is_dir">>]

\* variant: every existing regular file is taken as an audio file
detect_input_type_AnyFile(input_path, kind) ==
  IF is_youtube_url(input_path)
  THEN [ret |-> "youtube", exc |-> NoExc, checks |-> <<>>]
  ELSE IF kind = "absent"
  THEN [ret |-> "",
        exc |-> Raise("InvalidInputError",
                      "Path '" \o input_path \o "' does not exist"),
        checks |-> <<"exists">>]
  ELSE IF kind = "file"
  THEN [ret |-> "file", exc |-> NoExc, checks |-> <<"exists", "is_file">>]
  ELSE IF kind = "dir"
  THEN [ret |-> "directory", exc |-> NoExc,
        checks |-> <<"exists", "is_file", "is_dir">>]
  ELSE [ret |-> "",
        exc |-> Raise("InvalidInputError",
                      "'" \o input_path \o
                      "' is not a valid audio file, directory, or YouTube URL"),
        checks |-> <<"exists", "is_file", "is_dir">>]

\* detect_input_type as a function of the string and of what the path names:
\* the value returned, the exception raised, the filesystem checks made
detect_input_type(input_path, kind) ==
  IF is_youtube_url(input_path)
  THEN [ret |-> "youtube", exc |-> NoExc, checks |-> <<>>]
  ELSE IF kind = "absent"
  THEN [ret |-> "",
        exc |-> Raise("InvalidInputError",
                      "Path '" \o input_path \o "' does not exist"),
        checks |-> <<"exists">>]
  ELSE IF IsAudioFile(PathName(input_path), kind)
  THEN [ret |-> "file", exc |-> NoExc, checks |-> <<"exists", "is_file">>]
  ELSE IF kind = "dir"
  THEN [ret |-> "directory", exc |-> NoExc,
        checks |-> <<"exists", "is_file", "is_dir">>]
  ELSE [ret |-> "",
        exc |-> Raise("InvalidInputError",
                      "'" \o input_path \o
                      "' is not a valid audio file, directory, or YouTube URL"),
        checks |-> <<"exists", "is_file", "is_dir">>]

(***************************************************************************)
(* prompts.py: the prompt texts are opaque configuration strings           *)
(***************************************************************************)
ANALYZE == "ANALYZE"
EVAL == "EVAL"
SUNO == <<"SUNO1", "SUNO2", "SUNO3">>
CUSTOM == "custom"

\* PromptManager.get_prompt: a string, or a dict of step1..step3 for suno
get_prompt(prompt_type) ==
  CASE prompt_type = "analyze" -> [kind |-> "str", stages |-> <<ANALYZE>>]
    [] prompt_type = "eval" -> [kind |-> "str", stages |-> <<EVAL>>]
    [] prompt_type = "suno" -> [kind |-> "dict", stages |-> SUNO]

get_default_prompt == [kind |-> "str", stages |-> <<ANALYZE>>]

(***************************************************************************)
(* The inference collaborator                                              *)
(***************************************************************************)
SEP == "\n\nAnalysis to convert:\n"

\* the text of a successful generate_content call, a function of its contents
Generate(contents) ==
  "{" \o contents.text \o
  (IF contents.audio = "" THEN "" ELSE "+" \o contents.audio \o ":" \o contents.mime)
  \o "}"

\* str(e) of the exception a failing step raises
Cause(outcome) == IF outcome = "unreadable" THEN "EACCES" ELSE "boom"

\* outcomes of stage k: the audio stage can also fail to read the file
Outcomes(k) == IF k = 1 THEN {"ok", "fail", "unreadable"} ELSE {"ok", "fail"}

\* the collaborator answers the same request the same way
Consistent(f, k, o) == \A d \in oracle : (d.file = f /\ d.stage = k) => d.out = o

Decided(f, k, o) == oracle \cup {[file |-> f, stage |-> k, out |-> o]}

(***************************************************************************)
(* services.py: AudioProcessor                                             *)
(***************************************************************************)
\* AudioFormats.MIME_TYPES.get(file_ext, f"audio/{file_ext}")
MimeType(name) ==
  LET sfx == ToLower(Suffix(name))
      file_ext == IF Len(sfx) = 0 THEN "" ELSE Drop(sfx, 1)
  IN IF \E m \in MIME_TYPES : m[1] = file_ext
     THEN (CHOOSE m \in MIME_TYPES : m[1] = file_ext)[2]
     ELSE "audio/" \o file_ext

\* contents of the stage-1 call: [prompt, audio_part]
AudioContents(prompt, name) == [text |-> prompt, audio |-> name, mime |-> MimeType(name)]

\* variant: a linear chain, each later stage fed the preceding stage's text
TextContents_Previous(prompt, step1_response) ==
  [text |-> prompt \o SEP \o resp[Len(resp)], audio |-> "", mime |-> ""]

\* contents of a later call: the step prompt, the separator, stage 1's text
TextContents(prompt, step1_response) ==
  [text |-> prompt \o SEP \o step1_response, audio |-> "", mime |-> ""]

\* f"Error processing file {file_path.name}: {str(e)}"
ErrMsg(name, cause) == "Error processing file " \o name \o ": " \o cause

\* variant: the placeholder has the shape of a single-stage result
ErrorSlots_Single(n, e) == <<"Error: " \o e.msg>>

\* variant: only the first slot gets the placeholder
ErrorSlots_FirstOnly(n, e) == [k \in 1..n |-> IF k = 1 THEN "Error: " \o e.msg ELSE ""]

\* variant: the placeholder is the bare message
ErrorSlots_NoPrefix(n, e) == [k \in 1..n |-> e.msg]

\* the slots process_directory* stores for a file whose chain raised e
ErrorSlots(n, e) == [k \in 1..n |-> "Error: " \o e.msg]

\* where control goes when the chain executor returns or raises
After(c) ==
  CASE c = "api" -> "done"
    [] c = "dir" -> "collect"
    [] c = "file" -> "print_file"
    [] c = "youtube" -> "finally"

chainFrame == <<top, ctx, args, env, fsKind, listing, fsChecks, inputType, spec,
                op, file, prompts, idx, results, tmp, err, exitCode, first>>

\* variant: a failed audio stage hands its error message on as the stage-1
\* text and the later stages are still sent
ProcessFile_Poison ==
  /\ pc = "stage1"
  /\ \E o \in Outcomes(1) :
       /\ Consistent(file, 1, o)
       /\ oracle' = Decided(file, 1, o)
       /\ LET contents == AudioContents(prompts[1], file)
              call == [file |-> file, stage |-> 1, contents |-> contents, out |-> o]
          IN /\ calls' = IF o = "unreadable" THEN calls ELSE Append(calls, call)
             /\ out' = IF o = "unreadable" THEN out
                       ELSE Append(out, "Sending audio to Gemini AI for analysis...")
             /\ IF o = "ok"
                THEN /\ resp' = <<Generate(contents)>>
                     /\ exc' = NoExc
                     /\ IF Len(prompts) = 1
                        THEN retval' = <<Generate(contents)>> /\ pc' = After(ctx)
                        ELSE retval' = <<>> /\ pc' = "stage2"
                ELSE IF Len(prompts) = 1
                THEN /\ resp' = <<>>
                     /\ retval' = <<>>
                     /\ exc' = Raise("AudioProcessingError", ErrMsg(file, Cause(o)))
                     /\ pc' = After(ctx)
                ELSE /\ resp' = <<ErrMsg(file, Cause(o))>>
                     /\ retval' = <<>>
                     /\ exc' = NoExc
                     /\ pc' = "stage2"
  /\ UNCHANGED chainFrame

\* variant: the three-step chain sends its third step right after the first
ProcessFile_Stage3First ==
  /\ pc = "stage1"
  /\ \E o \in Outcomes(1) :
       /\ Consistent(file, 1, o)
       /\ oracle' = Decided(file, 1, o)
       /\ LET contents == AudioContents(prompts[1], file)
              call == [file |-> file, stage |-> 1, contents |-> contents, out |-> o]
          IN /\ calls' = IF o = "unreadable" THEN calls ELSE Append(calls, call)
             /\ out' = IF o = "unreadable" THEN out
                       ELSE Append(out, "Sending audio to Gemini AI for analysis...")
             /\ IF o = "ok"
                THEN /\ resp' = <<Generate(contents)>>
                     /\ exc' = NoExc
                     /\ IF Len(prompts) = 1
                        THEN retval' = <<Generate(contents)>> /\ pc' = After(ctx)
                        ELSE /\ retval' = <<>>
                             /\ pc' = IF Len(prompts) = 3 THEN "stage3" ELSE "stage2"
                ELSE /\ resp' = <<>>
                     /\ retval' = <<>>
                     /\ exc' = Raise("AudioProcessingError", ErrMsg(file, Cause(o)))
                     /\ pc' = After(ctx)
  /\ UNCHANGED chainFrame

\* variant: a failed audio call is sent a second time before giving up
ProcessFile_Retry ==
  /\ pc = "stage1"
  /\ \E o \in Outcomes(1) :
       /\ Consistent(file, 1, o)
       /\ oracle' = Decided(file, 1, o)
       /\ LET contents == AudioContents(prompts[1], file)
              call == [file |-> file, stage |-> 1, contents |-> contents, out |-> o]
          IN /\ calls' = IF o = "unreadable" THEN calls
                         ELSE IF o = "fail" THEN Append(Append(calls, call), call)
                         ELSE Append(calls, call)
             /\ out' = IF o = "unreadable" THEN out
                       ELSE Append(out, "Sending audio to Gemini AI for analysis...")
             /\ IF o = "ok"
                THEN /\ resp' = <<Generate(contents)>>
                     /\ exc' = NoExc
                     /\ IF Len(prompts) = 1
                        THEN retval' = <<Generate(contents)>> /\ pc' = After(ctx)
                        ELSE retval' = <<>> /\ pc' = "stage2"
                ELSE /\ resp' = <<>>
                     /\ retval' = <<>>
                     /\ exc' = Raise("AudioProcessingError", ErrMsg(file, Cause(o)))
                     /\ pc' = After(ctx)
  /\ UNCHANGED chainFrame

\* process_file: read the file, send prompt and audio, return response.text;
\* every exception becomes AudioProcessingError
ProcessFile ==
  /\ pc = "stage1"
  /\ \E o \in Outcomes(1) :
       /\ Consistent(file, 1, o)
       /\ oracle' = Decided(file, 1, o)
       /\ LET contents == AudioContents(prompts[1], file)
              call == [file |-> file, stage |-> 1, contents |-> contents, out |-> o]
          IN /\ calls' = IF o = "unreadable" THEN calls ELSE Append(calls, call)
             /\ out' = IF o = "unreadable" THEN out
                       ELSE Append(out, "Sending audio to Gemini AI for analysis...")
             /\ IF o = "ok"
                THEN /\ resp' = <<Generate(contents)>>
                     /\ exc' = NoExc
                     /\ IF Len(prompts) = 1
                        THEN retval' = <<Generate(contents)>> /\ pc' = After(ctx)
                        ELSE retval' = <<>> /\ pc' = "stage2"
                ELSE /\ resp' = <<>>
                     /\ retval' = <<>>
                     /\ exc' = Raise("AudioProcessingError", ErrMsg(file, Cause(o)))
                     /\ pc' = After(ctx)
  /\ UNCHANGED chainFrame

\* a text-only stage of process_file_two_step / process_file_three_step:
\* any exception leaves the try block and is wrapped in AudioProcessingError
TextStage(k) ==
  /\ pc = IF k = 2 THEN "stage2" ELSE "stage3"
  /\ \E o \in Outcomes(k) :
       /\ Consistent(file, k, o)
       /\ oracle' = Decided(file, k, o)
       /\ LET contents == TextContents(prompts[k], resp[1])
              call == [file |-> file, stage |-> k, contents |-> contents, out |-> o]
          IN /\ calls' = Append(calls, call)
             /\ IF o = "ok"
                THEN /\ resp' = Append(resp, Generate(contents))
                     /\ exc' = NoExc
                     /\ IF Len(prompts) = k
                        THEN retval' = Append(resp, Generate(contents)) /\ pc' = After(ctx)
                        ELSE retval' = <<>> /\ pc' = "stage3"
                ELSE /\ resp' = resp
                     /\ retval' = <<>>
                     /\ exc' = Raise("AudioProcessingError", ErrMsg(file, Cause(o)))
                     /\ pc' = After(ctx)
  /\ UNCHANGED out
  /\ UNCHANGED chainFrame

Stage2 == TextStage(2)

Stage3 == TextStage(3)

dirFrame == <<top, args, env, fsKind, listing, fsChecks, inputType, spec,
              op, prompts, oracle, calls, tmp, out, err, exitCode, first>>

\* one turn of "for file_path in directory.iterdir()": skip the entry, start
\* the chain on it, or leave the loop and return results
DirStep ==
  /\ pc = "iter"
  /\ IF idx = Len(listing)
     THEN /\ pc' = IF top = "cli" THEN "print_dir" ELSE "done"
          /\ UNCHANGED <<idx, file, resp, ctx>>
     ELSE IF IsAudioFile(listing[idx + 1].name, listing[idx + 1].kind)
     THEN /\ file' = listing[idx + 1].name
          /\ resp' = <<>>
          /\ ctx' = "dir"
          /\ pc' = "stage1"
          /\ idx' = idx
     ELSE /\ idx' = idx + 1
          /\ pc' = "iter"
          /\ UNCHANGED <<file, resp, ctx>>
  /\ UNCHANGED <<results, retval, exc>>
  /\ UNCHANGED dirFrame

\* variant: the newest entry is put in front of the others
DirCollect_Prepend ==
  /\ pc = "collect"
  /\ IF exc = NoExc
     THEN /\ results' = <<[name |-> file, slots |-> retval]>> \o results
          /\ pc' = "iter"
          /\ idx' = idx + 1
          /\ exc' = exc
     ELSE IF exc.type = "AudioProcessingError"
     THEN /\ results' = <<[name |-> file,
                           slots |-> ErrorSlots(Len(prompts), exc)]>> \o results
          /\ pc' = "iter"
          /\ idx' = idx + 1
          /\ exc' = NoExc
     ELSE /\ pc' = IF top = "cli" THEN "handle" ELSE "done"
          /\ UNCHANGED <<results, idx, exc>>
  /\ retval' = <<>>
  /\ UNCHANGED <<file, resp, ctx>>
  /\ UNCHANGED dirFrame

\* variant: a file whose chain raised gets no entry
DirCollect_DropFailed ==
  /\ pc = "collect"
  /\ IF exc = NoExc
     THEN results' = Append(results, [name |-> file, slots |-> retval])
     ELSE results' = results
  /\ pc' = "iter"
  /\ idx' = idx + 1
  /\ exc' = NoExc
  /\ retval' = <<>>
  /\ UNCHANGED <<file, resp, ctx>>
  /\ UNCHANGED dirFrame

\* variant: no except clause, the error of one file ends the batch
DirCollect_Propagate ==
  /\ pc = "collect"
  /\ IF exc = NoExc
     THEN /\ results' = Append(results, [name |-> file, slots |-> retval])
          /\ pc' = "iter"
          /\ idx' = idx + 1
     ELSE /\ pc' = IF top = "cli" THEN "handle" ELSE "done"
          /\ UNCHANGED <<results, idx>>
  /\ retval' = <<>>
  /\ UNCHANGED <<file, resp, ctx, exc>>
  /\ UNCHANGED dirFrame

\* the try/except around the chain in process_directory*: append the result,
\* or the placeholder when AudioProcessingError was raised
DirCollect ==
  /\ pc = "collect"
  /\ IF exc = NoExc
     THEN /\ results' = Append(results, [name |-> file, slots |-> retval])
          /\ pc' = "iter"
          /\ idx' = idx + 1
          /\ exc' = exc
     ELSE IF exc.type = "AudioProcessingError"
     THEN /\ results' = Append(results, [name |-> file,
                                         slots |-> ErrorSlots(Len(prompts), exc)])
          /\ pc' = "iter"
          /\ idx' = idx + 1
          /\ exc' = NoExc
     ELSE /\ pc' = IF top = "cli" THEN "handle" ELSE "done"
          /\ UNCHANGED <<results, idx, exc>>
  /\ retval' = <<>>
  /\ UNCHANGED <<file, resp, ctx>>
  /\ UNCHANGED dirFrame

(***************************************************************************)
(* Direct use of AudioProcessor                                            *)
(***************************************************************************)
Entries == {[name |-> "a.mp3", kind |-> "file"], [name |-> "b.txt", kind |-> "file"],
            [name |-> "c.WAV", kind |-> "file"], [name |-> "d.mp3", kind |-> "dir"]}

\* listings without a repeated name, in any enumeration order
Dirs == UNION {{s \in [1..n -> Entries] : \A i, j \in 1..n : s[i] = s[j] => i = j}
               : n \in 0..MaxEntries}

FileOps == {"process_file", "process_file_two_step", "process_file_three_step"}
DirOps == {"process_directory", "process_directory_two_step",
           "process_directory_three_step"}

\* the step prompts an operation takes
StepPrompts(o) ==
  CASE o \in {"process_file", "process_directory"} -> <<ANALYZE>>
    [] o \in {"process_file_two_step", "process_directory_two_step"} -> SubSeq(SUNO, 1, 2)
    [] OTHER -> SUNO

NoFirst == [set |-> FALSE, ret |-> <<>>, exc |-> NoExc]

None == "<None>"

NoArgs == [input |-> None, prompt |-> None, prompt_type |-> None, list_prompts |-> FALSE]

\* nothing has run yet
Blank ==
  /\ ctx = "api"
  /\ fsChecks = <<>>
  /\ inputType = ""
  /\ spec = [data |-> [kind |-> "str", stages |-> <<>>], is_multi_step |-> FALSE, steps |-> 0]
  /\ op = ""
  /\ file = ""
  /\ prompts = <<>>
  /\ resp = <<>>
  /\ idx = 0
  /\ results = <<>>
  /\ retval = <<>>
  /\ exc = NoExc
  /\ oracle = {}
  /\ calls = <<>>
  /\ tmp = [dir |-> "none", files |-> {}, asset |-> ""]
  /\ out = <<>>
  /\ err = <<>>
  /\ exitCode = -1
  /\ first = NoFirst

InitProc ==
  /\ top = "api"
  /\ pc = "idle"
  /\ args = NoArgs
  /\ env = [api_key |-> TRUE, client_ok |-> TRUE]
  /\ fsKind = "absent"
  /\ listing = <<>>
  /\ Blank

\* a caller invokes one AudioProcessor method on a file or on a directory
Invoke ==
  /\ pc = "idle"
  /\ top = "api"
  /\ \E o \in FileOps \cup DirOps :
       /\ op' = o
       /\ prompts' = StepPrompts(o)
       /\ IF o \in FileOps
          THEN /\ \E e \in {x \in Entries : x.kind = "file"} : file' = e.name
               /\ listing' = listing
               /\ ctx' = "api"
               /\ pc' = "stage1"
          ELSE /\ \E d \in Dirs : listing' = d
               /\ file' = file
               /\ ctx' = "dir"
               /\ pc' = "iter"
  /\ UNCHANGED <<top, args, env, fsKind, fsChecks, inputType, spec, resp, idx,
                 results, retval, exc, oracle, calls, tmp, out, err, exitCode, first>>

NextProc == Invoke \/ ProcessFile \/ Stage2 \/ Stage3 \/ DirStep \/ DirCollect

SpecProc == InitProc /\ [][NextProc]_vars

\* the one thread of control keeps running: every call returns or raises
SpecProcFair == InitProc /\ [][NextProc]_vars /\ WF_vars(NextProc)

(***************************************************************************)
(* Round trip: process_file on a file, then process_directory on a         *)
(* directory that holds only that file                                     *)
(***************************************************************************)
InitRT ==
  /\ top = "rt"
  /\ pc = "idle"
  /\ args = NoArgs
  /\ env = [api_key |-> TRUE, client_ok |-> TRUE]
  /\ fsKind = "absent"
  /\ listing = <<>>
  /\ Blank

RTPrompts == {ANALYZE, EVAL, SUNO[1], CUSTOM}

RTFiles == {"a.mp3", "b.txt", "c.WAV", "e.Flac", ".ogg"}

rtFrame == <<top, args, env, fsKind, fsChecks, inputType, spec, resp, idx,
             results, oracle, calls, tmp, out, err, exitCode>>

\* the single-file half: process_file(f, p)
RTFile ==
  /\ pc = "idle"
  /\ top = "rt"
  /\ \E f \in RTFiles, p \in RTPrompts :
       /\ op' = "process_file"
       /\ file' = f
       /\ prompts' = <<p>>
  /\ ctx' = "api"
  /\ pc' = "stage1"
  /\ UNCHANGED <<listing, retval, exc, first>>
  /\ UNCHANGED rtFrame

\* the batch half: process_directory(d, p) with d holding only that file
RTDirectory ==
  /\ pc = "done"
  /\ top = "rt"
  /\ ~first.set
  /\ first' = [set |-> TRUE, ret |-> retval, exc |-> exc]
  /\ op' = "process_directory"
  /\ listing' = <<[name |-> file, kind |-> "file"]>>
  /\ retval' = <<>>
  /\ exc' = NoExc
  /\ ctx' = "dir"
  /\ pc' = "iter"
  /\ UNCHANGED <<file, prompts>>
  /\ UNCHANGED rtFrame

NextRT == RTFile \/ ProcessFile \/ RTDirectory \/ DirStep \/ DirCollect

SpecRT == InitRT /\ [][NextRT]_vars

(***************************************************************************)
(* Classification alone: detect_input_type on a string and a filesystem    *)
(***************************************************************************)
Kinds == {"absent", "file", "dir", "other"}

Inputs == {"https://www.youtube.com/watch?v=abc", "http://youtu.be/x_1",
           "https://youtube.com/embed/Z-9", "http://www.youtube.com/v/q",
           "https://youtu.be/abc.mp3", "https://youtu.be/a b",
           "https://youtube.com/watch?v=", "HTTPS://youtu.be/abc",
           "https://vimeo.com/123", "youtu.be/abc", "ftp://youtu.be/abc",
           "https://youtube.com/playlist",
           "song.mp3", "Song.MP3", "music/a.wav", "x.m4a", "e.Flac", "t.ogg",
           "u.aAc", "notes.txt", "song.mp3.txt", "song.mp4", ".mp3", "mp3",
           "song.", "album", "album/", "album.ogg"}

InitClassify ==
  /\ top = "classify"
  /\ pc = "idle"
  /\ \E i \in Inputs : args = [NoArgs EXCEPT !.input = i]
  /\ env = [api_key |-> TRUE, client_ok |-> TRUE]
  /\ fsKind \in Kinds
  /\ listing = <<>>
  /\ Blank

\* validator.detect_input_type(input): the value or the exception
Classify ==
  /\ pc = "idle"
  /\ top = "classify"
  /\ LET r == detect_input_type(args.input, fsKind)
     IN /\ inputType' = r.ret
        /\ exc' = r.exc
        /\ fsChecks' = r.checks
  /\ pc' = "classified"
  /\ UNCHANGED <<top, ctx, args, env, fsKind, listing, spec, op, file, prompts,
                 resp, idx, results, retval, oracle, calls, tmp, out, err,
                 exitCode, first>>

NextClassify == Classify

SpecClassify == InitClassify /\ [][NextClassify]_vars

(***************************************************************************)
(* cli.py: GeminiMusicCLI.run                                              *)
(***************************************************************************)
CliInputs == {None, "https://youtu.be/abc", "song.mp3", "album", "notes.txt"}

InitCli ==
  /\ top = "cli"
  /\ pc = "start"
  /\ \E i \in CliInputs, p \in {None, CUSTOM}, t \in PromptType \cup {None},
        l \in BOOLEAN :
       args = [input |-> i, prompt |-> p, prompt_type |-> t, list_prompts |-> l]
  /\ env \in [api_key : BOOLEAN, client_ok : BOOLEAN]
  /\ fsKind \in Kinds
  /\ listing \in IF fsKind = "dir" THEN Dirs ELSE {<<>>}
  /\ Blank

\* the method process_single_file / process_youtube_url picks, by prompt shape
FileMethod(sp) ==
  IF sp.is_multi_step /\ sp.steps = 3 THEN "process_file_three_step"
  ELSE IF sp.is_multi_step /\ sp.steps = 2 THEN "process_file_two_step"
  ELSE "process_file"

\* the method GeminiMusicCLI.process_directory picks
DirMethod(sp) ==
  IF sp.is_multi_step /\ sp.steps = 3 THEN "process_directory_three_step"
  ELSE IF sp.is_multi_step /\ sp.steps = 2 THEN "process_directory_two_step"
  ELSE "process_directory"

\* variant: only the first step of a multi-step template is handed on
MethodPrompts_Single(sp) == SubSeq(sp.data.stages, 1, 1)

\* prompt_data["step1"], ... or prompt_data itself
MethodPrompts(sp) ==
  IF sp.is_multi_step /\ sp.steps = 3 THEN SubSeq(sp.data.stages, 1, 3)
  ELSE IF sp.is_multi_step /\ sp.steps = 2 THEN SubSeq(sp.data.stages, 1, 2)
  ELSE SubSeq(sp.data.stages, 1, 1)

\* "-" * n
RECURSIVE Dashes(_)
Dashes(n) == IF n = 0 THEN "" ELSE "-" \o Dashes(n - 1)

\* _print_single_result / _print_two_step_results / _print_three_step_results
ResultLines(name, slots) ==
  <<"\\n--- " \o name \o " ---">>
  \o (IF Len(slots) = 1 THEN <<slots[1]>>
      ELSE <<"=== DETAILED ANALYSIS ===", slots[1],
             "\\n=== SUNO STYLE PROMPT ===", slots[2]>>
           \o (IF Len(slots) = 3
               THEN <<"\\n=== SUNO LYRICS PROMPT ===", slots[3]>>
               ELSE <<>>))
  \o <<Dashes(Len(name) + 8)>>

RECURSIVE AllResultLines(_)
AllResultLines(rs) ==
  IF rs = <<>> THEN <<>>
  ELSE ResultLines(rs[1].name, rs[1].slots) \o AllResultLines(Tail(rs))

\* the label run() prints for an exception type
ErrorLabel(t) ==
  CASE t = "ConfigurationError" -> "Configuration Error"
    [] t = "InvalidInputError" -> "Input Error"
    [] t = "AudioDownloadError" -> "Download Error"
    [] t = "AudioProcessingError" -> "Processing Error"
    [] OTHER -> "Unexpected Error"

\* what handle_list_prompts prints, one line per PromptType member
ListPromptsLines ==
  <<"Available Predefined Prompts:", Dashes(50), "- analyze", "- eval", "- suno",
    Dashes(50), "\\nUse --prompt-type [NAME] to select a predefined prompt">>

\* parse_args, --list-prompts, the missing input
RunStart ==
  /\ pc = "start"
  /\ IF args.list_prompts
     THEN /\ out' = out \o ListPromptsLines
          /\ err' = err
          /\ exitCode' = 0
          /\ pc' = "exit"
     ELSE IF args.input = None
     THEN /\ out' = Append(out, "usage")
          /\ err' = Append(err, "Error: Directory or YouTube URL is required for processing audio files")
          /\ exitCode' = 1
          /\ pc' = "exit"
     ELSE /\ pc' = "setup"
          /\ UNCHANGED <<out, err, exitCode>>
  /\ UNCHANGED <<top, ctx, args, env, fsKind, listing, fsChecks, inputType, spec,
                 op, file, prompts, resp, idx, results, retval, exc, oracle,
                 calls, tmp, first>>

\* variant: the missing key is not noticed before the input is processed
SetupGeminiClient_NoKeyCheck ==
  /\ pc = "setup"
  /\ IF ~env.client_ok
     THEN /\ exc' = Raise("ConfigurationError", "Failed to initialize Gemini client: boom")
          /\ pc' = "handle"
     ELSE /\ exc' = exc
          /\ pc' = "prompt"
  /\ UNCHANGED <<top, ctx, args, env, fsKind, listing, fsChecks, inputType, spec,
                 op, file, prompts, resp, idx, results, retval, oracle, calls,
                 tmp, out, err, exitCode, first>>

\* setup_gemini_client
SetupGeminiClient ==
  /\ pc = "setup"
  /\ IF ~env.api_key
     THEN /\ exc' = Raise("ConfigurationError", "GOOGLE_API_KEY environment variable not set")
          /\ pc' = "handle"
     ELSE IF ~env.client_ok
     THEN /\ exc' = Raise("ConfigurationError", "Failed to initialize Gemini client: boom")
          /\ pc' = "handle"
     ELSE /\ exc' = exc
          /\ pc' = "prompt"
  /\ UNCHANGED <<top, ctx, args, env, fsKind, listing, fsChecks, inputType, spec,
                 op, file, prompts, resp, idx, results, retval, oracle, calls,
                 tmp, out, err, exitCode, first>>

\* variant: a custom prompt string wins over --prompt-type
DeterminePrompt_CustomFirst ==
  /\ pc = "prompt"
  /\ IF args.prompt # None
     THEN /\ spec' = [data |-> [kind |-> "str", stages |-> <<args.prompt>>],
                      is_multi_step |-> FALSE, steps |-> 1]
          /\ out' = out
     ELSE IF args.prompt_type # None
     THEN LET prompt_data == get_prompt(args.prompt_type)
          IN /\ spec' = [data |-> prompt_data,
                         is_multi_step |-> args.prompt_type = "suno",
                         steps |-> Len(prompt_data.stages)]
             /\ out' = Append(out, "Using predefined prompt: " \o args.prompt_type)
     ELSE /\ spec' = [data |-> get_default_prompt, is_multi_step |-> FALSE, steps |-> 1]
          /\ out' = Append(out, "Using default detailed music analysis prompt")
  /\ pc' = "detect"
  /\ UNCHANGED <<top, ctx, args, env, fsKind, listing, fsChecks, inputType, op,
                 file, prompts, resp, idx, results, retval, exc, oracle, calls,
                 tmp, err, exitCode, first>>

\* determine_prompt
DeterminePrompt ==
  /\ pc = "prompt"
  /\ IF args.prompt_type # None
     THEN LET prompt_data == get_prompt(args.prompt_type)
              is_multi_step == args.prompt_type = "suno"
              steps == IF prompt_data.kind = "dict" THEN Len(prompt_data.stages) ELSE 1
              step_desc == IF is_multi_step
                           THEN " (" \o SubSeq(Digits, steps + 1, steps + 1)
                                \o "-step analysis)"
                           ELSE ""
          IN /\ spec' = [data |-> prompt_data, is_multi_step |-> is_multi_step,
                         steps |-> steps]
             /\ out' = Append(out, "Using predefined prompt: " \o args.prompt_type
                                   \o step_desc)
     ELSE IF args.prompt = None
     THEN /\ spec' = [data |-> get_default_prompt, is_multi_step |-> FALSE, steps |-> 1]
          /\ out' = Append(out, "Using default detailed music analysis prompt")
     ELSE /\ spec' = [data |-> [kind |-> "str", stages |-> <<args.prompt>>],
                      is_multi_step |-> FALSE, steps |-> 1]
          /\ out' = out
  /\ pc' = "detect"
  /\ UNCHANGED <<top, ctx, args, env, fsKind, listing, fsChecks, inputType, op,
                 file, prompts, resp, idx, results, retval, exc, oracle, calls,
                 tmp, err, exitCode, first>>

\* input_type = self.validator.detect_input_type(args.input)
DetectInput ==
  /\ pc = "detect"
  /\ LET r == detect_input_type(args.input, fsKind)
     IN /\ inputType' = r.ret
        /\ exc' = r.exc
        /\ fsChecks' = r.checks
        /\ pc' = IF r.exc = NoExc THEN "dispatch" ELSE "handle"
  /\ UNCHANGED <<top, ctx, args, env, fsKind, listing, spec, op, file, prompts,
                 resp, idx, results, retval, oracle, calls, tmp, out, err,
                 exitCode, first>>

\* variant: a local audio file is sent through the downloader as well
Dispatch_DownloadAll ==
  /\ pc = "dispatch"
  /\ IF inputType \in {"youtube", "file"}
     THEN /\ pc' = "download"
          /\ UNCHANGED <<ctx, op, file, prompts>>
     ELSE /\ ctx' = "dir"
          /\ op' = DirMethod(spec)
          /\ prompts' = MethodPrompts(spec)
          /\ file' = file
          /\ pc' = "iter"
  /\ UNCHANGED <<top, args, env, fsKind, listing, fsChecks, inputType, spec, resp,
                 idx, results, retval, exc, oracle, calls, tmp, out, err,
                 exitCode, first>>

\* the if/elif on input_type, down to the AudioProcessor method
Dispatch ==
  /\ pc = "dispatch"
  /\ IF inputType = "youtube"
     THEN /\ pc' = "download"
          /\ UNCHANGED <<ctx, op, file, prompts>>
     ELSE IF inputType = "file"
     THEN /\ ctx' = "file"
          /\ op' = FileMethod(spec)
          /\ prompts' = MethodPrompts(spec)
          /\ file' = PathName(args.input)
          /\ pc' = "stage1"
     ELSE /\ ctx' = "dir"
          /\ op' = DirMethod(spec)
          /\ prompts' = MethodPrompts(spec)
          /\ file' = file
          /\ pc' = "iter"
  /\ UNCHANGED <<top, args, env, fsKind, listing, fsChecks, inputType, spec, resp,
                 idx, results, retval, exc, oracle, calls, tmp, out, err,
                 exitCode, first>>

\* the name of the i-th file the fetch leaves in the temporary directory
TmpName(i) == "t" \o SubSeq(Digits, i + 1, i + 1) \o ".mp3"

\* variant: the name yt-dlp prepared is returned without looking at the
\* directory, so an empty directory yields a path to no file
Download_ReturnsFilename ==
  /\ pc = "download"
  /\ LET downloading == Append(out, "Downloading audio from YouTube URL: " \o args.input)
     IN \E how \in {"mkdtemp", "extract", "done"}, n \in 0..MaxLeft :
       LET left == {TmpName(i) : i \in 1..n}
       IN IF how = "mkdtemp"
          THEN /\ tmp' = tmp
               /\ exc' = Raise("AudioDownloadError", "Failed to download YouTube audio: ENOSPC")
               /\ pc' = "handle"
               /\ out' = downloading
               /\ UNCHANGED <<ctx, op, file, prompts>>
          ELSE IF how = "extract"
          THEN /\ tmp' = [dir |-> "exists", files |-> left, asset |-> ""]
               /\ exc' = Raise("AudioDownloadError", "Failed to download YouTube audio: boom")
               /\ pc' = "handle"
               /\ out' = downloading
               /\ UNCHANGED <<ctx, op, file, prompts>>
          ELSE /\ tmp' = [dir |-> "exists", files |-> left, asset |-> TmpName(1)]
               /\ exc' = exc
               /\ out' = Append(downloading, "Downloaded to: " \o TmpName(1))
               /\ ctx' = "youtube"
               /\ op' = FileMethod(spec)
               /\ prompts' = MethodPrompts(spec)
               /\ file' = TmpName(1)
               /\ pc' = "stage1"
  /\ UNCHANGED <<top, args, env, fsKind, listing, fsChecks, inputType, spec, resp,
                 idx, results, retval, oracle, calls, err, exitCode, first>>

\* variant: the temporary directory is removed when the download returns
Download_TempDirContext ==
  /\ pc = "download"
  /\ LET downloading == Append(out, "Downloading audio from YouTube URL: " \o args.input)
     IN \E how \in {"mkdtemp", "extract", "done"}, n \in 0..MaxLeft :
       LET left == {TmpName(i) : i \in 1..n}
       IN IF how = "mkdtemp"
          THEN /\ tmp' = tmp
               /\ exc' = Raise("AudioDownloadError", "Failed to download YouTube audio: ENOSPC")
               /\ pc' = "handle"
               /\ out' = downloading
               /\ UNCHANGED <<ctx, op, file, prompts>>
          ELSE IF how = "extract"
          THEN /\ tmp' = [dir |-> "removed", files |-> {}, asset |-> ""]
               /\ exc' = Raise("AudioDownloadError", "Failed to download YouTube audio: boom")
               /\ pc' = "handle"
               /\ out' = downloading
               /\ UNCHANGED <<ctx, op, file, prompts>>
          ELSE IF left = {}
          THEN /\ tmp' = [dir |-> "removed", files |-> {}, asset |-> ""]
               /\ exc' = Raise("AudioDownloadError", "No file was downloaded")
               /\ pc' = "handle"
               /\ out' = downloading
               /\ UNCHANGED <<ctx, op, file, prompts>>
          ELSE \E a \in left :
               /\ tmp' = [dir |-> "removed", files |-> {}, asset |-> a]
               /\ exc' = exc
               /\ out' = Append(downloading, "Downloaded to: " \o a)
               /\ ctx' = "youtube"
               /\ op' = FileMethod(spec)
               /\ prompts' = MethodPrompts(spec)
               /\ file' = a
               /\ pc' = "stage1"
  /\ UNCHANGED <<top, args, env, fsKind, listing, fsChecks, inputType, spec, resp,
                 idx, results, retval, oracle, calls, err, exitCode, first>>

\* process_youtube_url up to the try: download_from_youtube (mkdtemp,
\* extract_info, glob('*')) and the start of the chain on the file returned
Download ==
  /\ pc = "download"
  /\ LET downloading == Append(out, "Downloading audio from YouTube URL: " \o args.input)
     IN \E how \in {"mkdtemp", "extract", "done"}, n \in 0..MaxLeft :
       LET left == {TmpName(i) : i \in 1..n}
       IN IF how = "mkdtemp"
          THEN /\ tmp' = tmp
               /\ exc' = Raise("AudioDownloadError", "Failed to download YouTube audio: ENOSPC")
               /\ pc' = "handle"
               /\ out' = downloading
               /\ UNCHANGED <<ctx, op, file, prompts>>
          ELSE IF how = "extract"
          THEN /\ tmp' = [dir |-> "exists", files |-> left, asset |-> ""]
               /\ exc' = Raise("AudioDownloadError", "Failed to download YouTube audio: boom")
               /\ pc' = "handle"
               /\ out' = downloading
               /\ UNCHANGED <<ctx, op, file, prompts>>
          ELSE IF left = {}
          THEN /\ tmp' = [dir |-> "exists", files |-> {}, asset |-> ""]
               /\ exc' = Raise("AudioDownloadError", "No file was downloaded")
               /\ pc' = "handle"
               /\ out' = downloading
               /\ UNCHANGED <<ctx, op, file, prompts>>
          ELSE \E a \in left :
               /\ tmp' = [dir |-> "exists", files |-> left, asset |-> a]
               /\ exc' = exc
               /\ out' = Append(downloading, "Downloaded to: " \o a)
               /\ ctx' = "youtube"
               /\ op' = FileMethod(spec)
               /\ prompts' = MethodPrompts(spec)
               /\ file' = a
               /\ pc' = "stage1"
  /\ UNCHANGED <<top, args, env, fsKind, listing, fsChecks, inputType, spec, resp,
                 idx, results, retval, oracle, calls, err, exitCode, first>>

\* the end of the try body and the finally clause of process_youtube_url:
\* print, unlink the file, rmdir its parent; rmdir raises on a directory
\* that still holds a file
Finally ==
  /\ pc = "finally"
  /\ out' = IF exc = NoExc THEN out \o ResultLines(file, retval) ELSE out
  /\ LET kept == tmp.files \ {tmp.asset}
     IN IF tmp.dir # "exists"
        THEN /\ tmp' = tmp
             /\ exc' = exc
        ELSE IF kept = {}
        THEN /\ tmp' = [tmp EXCEPT !.dir = "removed", !.files = {}]
             /\ exc' = exc
        ELSE /\ tmp' = [tmp EXCEPT !.files = kept]
             /\ exc' = Raise("OSError", "Directory not empty")
  /\ IF exc' = NoExc
     THEN pc' = "exit" /\ exitCode' = 0
     ELSE pc' = "handle" /\ exitCode' = exitCode
  /\ UNCHANGED <<top, ctx, args, env, fsKind, listing, fsChecks, inputType, spec,
                 op, file, prompts, resp, idx, results, retval, oracle, calls,
                 err, first>>

\* variant: the local file is unlinked after processing, like a download
PrintFile_Unlink ==
  /\ pc = "print_file"
  /\ fsKind' = "absent"
  /\ IF exc = NoExc
     THEN /\ out' = out \o ResultLines(file, retval)
          /\ pc' = "exit"
          /\ exitCode' = 0
     ELSE /\ out' = out
          /\ pc' = "handle"
          /\ exitCode' = exitCode
  /\ UNCHANGED <<top, ctx, args, env, listing, fsChecks, inputType, spec,
                 op, file, prompts, resp, idx, results, retval, exc, oracle,
                 calls, tmp, err, first>>

\* process_single_file after the chain: print, or let the exception through
PrintFile ==
  /\ pc = "print_file"
  /\ IF exc = NoExc
     THEN /\ out' = out \o ResultLines(file, retval)
          /\ pc' = "exit"
          /\ exitCode' = 0
     ELSE /\ out' = out
          /\ pc' = "handle"
          /\ exitCode' = exitCode
  /\ UNCHANGED <<top, ctx, args, env, fsKind, listing, fsChecks, inputType, spec,
                 op, file, prompts, resp, idx, results, retval, exc, oracle,
                 calls, tmp, err, first>>

\* variant: a batch holding a placeholder ends the run with status 1
PrintDir_FailOnPlaceholder ==
  /\ pc = "print_dir"
  /\ out' = IF results = <<>>
            THEN Append(out, "No audio files found in the specified directory.")
            ELSE out \o AllResultLines(results)
  /\ pc' = "exit"
  /\ exitCode' = IF \E i \in 1..Len(results) : StartsWith(results[i].slots[1], "Error: ")
                 THEN 1 ELSE 0
  /\ UNCHANGED <<top, ctx, args, env, fsKind, listing, fsChecks, inputType, spec,
                 op, file, prompts, resp, idx, results, retval, exc, oracle,
                 calls, tmp, err, first>>

\* GeminiMusicCLI.process_directory after the batch returned
PrintDir ==
  /\ pc = "print_dir"
  /\ out' = IF results = <<>>
            THEN Append(out, "No audio files found in the specified directory.")
            ELSE out \o AllResultLines(results)
  /\ pc' = "exit"
  /\ exitCode' = 0
  /\ UNCHANGED <<top, ctx, args, env, fsKind, listing, fsChecks, inputType, spec,
                 op, file, prompts, resp, idx, results, retval, exc, oracle,
                 calls, tmp, err, first>>

\* the except clauses of run(): one labelled line, then sys.exit(1)
HandleError ==
  /\ pc = "handle"
  /\ err' = Append(err, ErrorLabel(exc.type) \o ": " \o exc.msg)
  /\ exitCode' = 1
  /\ pc' = "exit"
  /\ UNCHANGED <<top, ctx, args, env, fsKind, listing, fsChecks, inputType, spec,
                 op, file, prompts, resp, idx, results, retval, exc, oracle,
                 calls, tmp, out, first>>

Next ==
  \/ RunStart \/ SetupGeminiClient \/ DeterminePrompt \/ DetectInput \/ Dispatch
  \/ Download \/ ProcessFile \/ Stage2 \/ Stage3 \/ Finally \/ PrintFile
  \/ DirStep \/ DirCollect \/ PrintDir \/ HandleError

Init == InitCli

Spec == Init /\ [][Next]_vars

(***************************************************************************)
(* gemini_cli.py: the single-file command line program.  Its executors     *)
(* return the error text instead of raising, and main() is one function.   *)
(***************************************************************************)
InitLegacy ==
  /\ top = "legacy"
  /\ pc = "legacy_start"
  /\ \E i \in CliInputs, p \in {None, CUSTOM}, t \in PromptType \cup {None},
        l \in BOOLEAN :
       args = [input |-> i, prompt |-> p, prompt_type |-> t, list_prompts |-> l]
  /\ env \in [api_key : BOOLEAN, client_ok : BOOLEAN]
  /\ fsKind \in Kinds
  /\ listing \in IF fsKind = "dir" THEN Dirs ELSE {<<>>}
  /\ Blank

\* the prompts main() hands to the executor: step1 and step2 of suno, the
\* template of another --prompt-type, the default, or the custom string
LegacyPrompts(a) ==
  IF a.prompt_type = "suno" THEN SubSeq(SUNO, 1, 2)
  ELSE IF a.prompt_type # None THEN get_prompt(a.prompt_type).stages
  ELSE IF a.prompt = None THEN <<ANALYZE>>
  ELSE <<a.prompt>>

\* the "Using ..." line main() prints when it picks the prompt
LegacyUsing(a) ==
  IF a.prompt_type = "suno" THEN <<"Using predefined prompt: suno (two-step analysis)">>
  ELSE IF a.prompt_type # None THEN <<"Using predefined prompt: " \o a.prompt_type>>
  ELSE IF a.prompt = None THEN <<"Using default detailed music analysis prompt">>
  ELSE <<>>

\* the block main() prints for one file
LegacyResultLines(name, slots) ==
  <<"\n--- " \o name \o " ---">>
  \o (IF Len(slots) = 1 THEN <<slots[1]>>
      ELSE <<"=== DETAILED ANALYSIS ===", slots[1],
             "\n=== SUNO STYLE PROMPT ===", slots[2]>>)
  \o <<Dashes(Len(name) + 8)>>

RECURSIVE LegacyAllResultLines(_)
LegacyAllResultLines(rs) ==
  IF rs = <<>> THEN <<>>
  ELSE LegacyResultLines(rs[1].name, rs[1].slots) \o LegacyAllResultLines(Tail(rs))

\* where control goes when an executor returns
LegacyAfter(c) == IF c = "youtube" THEN "legacy_print_url" ELSE "legacy_collect"

\* main() from parse_args to the choice between the URL and the directory
\* branch; an exception of genai.Client is not caught
LegacyMain ==
  /\ pc = "legacy_start"
  /\ IF args.list_prompts
     THEN /\ out' = out \o ListPromptsLines
          /\ exitCode' = 0
          /\ pc' = "exit"
          /\ UNCHANGED <<err, exc, inputType>>
     ELSE IF ~env.api_key
     THEN /\ err' = Append(err, "Error: GOOGLE_API_KEY environment variable not set")
          /\ exitCode' = 1
          /\ pc' = "exit"
          /\ UNCHANGED <<out, exc, inputType>>
     ELSE IF ~env.client_ok
     THEN /\ exc' = Raise("Exception", "boom")
          /\ err' = Append(err, "Traceback: Exception: boom")
          /\ exitCode' = 1
          /\ pc' = "exit"
          /\ UNCHANGED <<out, inputType>>
     ELSE IF args.input = None
     THEN /\ out' = Append(out, "usage")
          /\ err' = Append(err, "\nError: Directory or YouTube URL is required for processing audio files")
          /\ exitCode' = 1
          /\ pc' = "exit"
          /\ UNCHANGED <<exc, inputType>>
     ELSE IF is_youtube_url(args.input)
     THEN /\ inputType' = "youtube"
          /\ pc' = "legacy_download"
          /\ UNCHANGED <<out, err, exc, exitCode>>
     ELSE IF fsKind # "dir"
     THEN /\ err' = Append(err, "Error: '" \o args.input \o
                                "' is not a valid directory or YouTube URL")
          /\ exitCode' = 1
          /\ pc' = "exit"
          /\ UNCHANGED <<out, exc, inputType>>
     ELSE /\ inputType' = "directory"
          /\ pc' = "legacy_dirmain"
          /\ UNCHANGED <<out, err, exc, exitCode>>
  /\ UNCHANGED <<top, ctx, args, env, fsKind, listing, fsChecks, spec, op, file,
                 prompts, resp, idx, results, retval, oracle, calls, tmp, first>>

\* download_audio_from_youtube inside the try of the URL branch, and the
\* choice of the executor; every failure is an Exception the branch reports
LegacyDownload ==
  /\ pc = "legacy_download"
  /\ LET downloading == Append(out, "Downloading audio from YouTube URL: " \o args.input)
     IN \E how \in {"mkdtemp", "extract", "done"}, n \in 0..MaxLeft :
       LET left == {TmpName(i) : i \in 1..n}
           msg == IF how = "mkdtemp" THEN "Failed to download YouTube audio: ENOSPC"
                  ELSE IF how = "extract" THEN "Failed to download YouTube audio: boom"
                  ELSE "Failed to download YouTube audio: No file was downloaded"
       IN IF how # "done" \/ left = {}
          THEN /\ tmp' = IF how = "mkdtemp" THEN tmp
                         ELSE [dir |-> "exists", files |-> left, asset |-> ""]
               /\ exc' = Raise("Exception", msg)
               /\ err' = Append(err, "Error processing YouTube URL: " \o msg)
               /\ exitCode' = 1
               /\ out' = downloading
               /\ pc' = "exit"
               /\ UNCHANGED <<ctx, op, file, prompts>>
          ELSE \E a \in left :
               /\ tmp' = [dir |-> "exists", files |-> left, asset |-> a]
               /\ out' = Append(downloading, "Downloaded to: " \o a) \o LegacyUsing(args)
               /\ ctx' = "youtube"
               /\ op' = IF args.prompt_type = "suno" THEN "process_audio_file_two_step"
                        ELSE "process_audio_file"
               /\ prompts' = LegacyPrompts(args)
               /\ file' = a
               /\ pc' = "legacy_stage1"
               /\ UNCHANGED <<exc, err, exitCode>>
  /\ UNCHANGED <<top, args, env, fsKind, listing, fsChecks, inputType, spec, resp,
                 idx, results, retval, oracle, calls, first>>

\* process_audio_file: the text of the model, or the error text as a value
LegacyProcessFile ==
  /\ pc = "legacy_stage1"
  /\ \E o \in Outcomes(1) :
       /\ Consistent(file, 1, o)
       /\ oracle' = Decided(file, 1, o)
       /\ LET contents == AudioContents(prompts[1], file)
              call == [file |-> file, stage |-> 1, contents |-> contents, out |-> o]
              response == IF o = "ok" THEN Generate(contents) ELSE ErrMsg(file, Cause(o))
          IN /\ calls' = IF o = "unreadable" THEN calls ELSE Append(calls, call)
             /\ resp' = <<response>>
             /\ IF Len(prompts) = 1
                THEN retval' = <<response>> /\ pc' = LegacyAfter(ctx)
                ELSE retval' = <<>> /\ pc' = "legacy_stage2"
  /\ UNCHANGED <<top, ctx, args, env, fsKind, listing, fsChecks, inputType, spec,
                 op, file, prompts, idx, results, exc, tmp, out, err, exitCode, first>>

\* the rest of process_audio_file_two_step: the second call on whatever
\* process_audio_file returned, and the pair; an exception of the second
\* call gives its error text in both places
LegacyStage2 ==
  /\ pc = "legacy_stage2"
  /\ \E o \in Outcomes(2) :
       /\ Consistent(file, 2, o)
       /\ oracle' = Decided(file, 2, o)
       /\ LET contents == [text |-> prompts[2] \o SEP \o resp[1], audio |-> "", mime |-> ""]
              call == [file |-> file, stage |-> 2, contents |-> contents, out |-> o]
              error_msg == ErrMsg(file, Cause(o))
          IN /\ calls' = Append(calls, call)
             /\ IF o = "ok"
                THEN /\ resp' = Append(resp, Generate(contents))
                     /\ retval' = <<resp[1], Generate(contents)>>
                ELSE /\ resp' = resp
                     /\ retval' = <<error_msg, error_msg>>
  /\ pc' = LegacyAfter(ctx)
  /\ UNCHANGED <<top, ctx, args, env, fsKind, listing, fsChecks, inputType, spec,
                 op, file, prompts, idx, results, exc, tmp, out, err, exitCode, first>>

\* the end of the URL branch: print, unlink the file, rmdir its directory;
\* an OSError is reported by the except clause, and without one control
\* leaves the if/else and goes on with the statements after it
LegacyPrintUrl ==
  /\ pc = "legacy_print_url"
  /\ out' = out \o LegacyResultLines(file, retval)
  /\ LET kept == tmp.files \ {tmp.asset}
     IN IF kept = {}
        THEN /\ tmp' = [tmp EXCEPT !.dir = "removed", !.files = {}]
             /\ pc' = "legacy_dirmain"
             /\ UNCHANGED <<exc, err, exitCode>>
        ELSE /\ tmp' = [tmp EXCEPT !.files = kept]
             /\ exc' = Raise("OSError", "Directory not empty")
             /\ err' = Append(err, "Error processing YouTube URL: Directory not empty")
             /\ exitCode' = 1
             /\ pc' = "exit"
  /\ UNCHANGED <<top, ctx, args, env, fsKind, listing, fsChecks, inputType, spec,
                 op, file, prompts, resp, idx, results, retval, oracle, calls, first>>

\* the statements after the if/else: pick the prompt, print the "Using"
\* line and call process_directory* on directory_path, a local that is only
\* bound in the directory branch; reading it unbound is an uncaught
\* UnboundLocalError
LegacyDirMain ==
  /\ pc = "legacy_dirmain"
  /\ out' = out \o LegacyUsing(args)
  /\ IF inputType # "directory"
     THEN /\ exc' = Raise("UnboundLocalError", "directory_path")
          /\ err' = Append(err, "Traceback: UnboundLocalError: directory_path")
          /\ exitCode' = 1
          /\ pc' = "exit"
          /\ UNCHANGED <<ctx, op, prompts>>
     ELSE /\ ctx' = "dir"
          /\ op' = IF args.prompt_type = "suno" THEN "process_directory_two_step"
                   ELSE "process_directory"
          /\ prompts' = LegacyPrompts(args)
          /\ pc' = "legacy_iter"
          /\ UNCHANGED <<exc, err, exitCode>>
  /\ UNCHANGED <<top, args, env, fsKind, listing, fsChecks, inputType, spec, file,
                 resp, idx, results, retval, oracle, calls, tmp, first>>

\* one turn of the for loop of process_directory / process_directory_two_step
LegacyDirStep ==
  /\ pc = "legacy_iter"
  /\ IF idx = Len(listing)
     THEN /\ pc' = "legacy_print_dir"
          /\ UNCHANGED <<idx, file, resp>>
     ELSE IF IsAudioFile(listing[idx + 1].name, listing[idx + 1].kind)
     THEN /\ file' = listing[idx + 1].name
          /\ resp' = <<>>
          /\ pc' = "legacy_stage1"
          /\ idx' = idx
     ELSE /\ idx' = idx + 1
          /\ pc' = "legacy_iter"
          /\ UNCHANGED <<file, resp>>
  /\ UNCHANGED <<top, ctx, args, env, fsKind, listing, fsChecks, inputType, spec,
                 op, prompts, results, retval, exc, oracle, calls, tmp, out, err,
                 exitCode, first>>

\* results.append((file_path.name, response)): whatever the executor returned
LegacyDirCollect ==
  /\ pc = "legacy_collect"
  /\ results' = Append(results, [name |-> file, slots |-> retval])
  /\ idx' = idx + 1
  /\ retval' = <<>>
  /\ pc' = "legacy_iter"
  /\ UNCHANGED <<top, ctx, args, env, fsKind, listing, fsChecks, inputType, spec,
                 op, file, prompts, resp, exc, oracle, calls, tmp, out, err,
                 exitCode, first>>

\* the output loop at the end of main(), and its return
LegacyPrintDir ==
  /\ pc = "legacy_print_dir"
  /\ out' = IF results = <<>>
            THEN Append(out, "No audio files found in the specified directory.")
            ELSE out \o LegacyAllResultLines(results)
  /\ exitCode' = 0
  /\ pc' = "exit"
  /\ UNCHANGED <<top, ctx, args, env, fsKind, listing, fsChecks, inputType, spec,
                 op, file, prompts, resp, idx, results, retval, exc, oracle, calls,
                 tmp, err, first>>

NextLegacy ==
  \/ LegacyMain \/ LegacyDownload \/ LegacyProcessFile \/ LegacyStage2
  \/ LegacyPrintUrl \/ LegacyDirMain \/ LegacyDirStep \/ LegacyDirCollect
  \/ LegacyPrintDir

SpecLegacy == InitLegacy /\ [][NextLegacy]_vars

(***************************************************************************)
(* Properties.  What a claim expects is written out for the small          *)
(* universe above, not computed with the operators of the model.           *)
(***************************************************************************)
\* the entries of Entries that are regular files with an audio extension
AudioNames == {"a.mp3", "c.WAV"}

EligibleOf(l) == SelectSeq(l, LAMBDA e : e.kind = "file" /\ e.name \in AudioNames)

NamesOf(rs) == [i \in 1..Len(rs) |-> rs[i].name]

StageOutcome(f, k, o) == [file |-> f, stage |-> k, out |-> o] \in oracle

StageFailed(f, k) == StageOutcome(f, k, "fail") \/ StageOutcome(f, k, "unreadable")

FailedFile(f) == \E k \in 1..3 : StageFailed(f, k)

\* the text of the error raised for file f, from the outcome that failed
FailureText(f) ==
  "Error processing file " \o f \o ": " \o
  (IF StageOutcome(f, 1, "unreadable") THEN "EACCES" ELSE "boom")

\* the model's text for stage k of file f under step prompts ps
GenuineText(f, ps, k) ==
  LET t1 == Generate(AudioContents(ps[1], f))
  IN IF k = 1 THEN t1 ELSE Generate(TextContents(ps[k], t1))

BatchDone == top = "api" /\ pc = "done" /\ op \in DirOps

ChainDone == top = "api" /\ pc = "done" /\ op \in FileOps

\* C1: a batch over a directory with N eligible files returns exactly N
\* entries, in enumeration order; the entry of a file that failed holds the
\* error placeholder in every slot, the entry of any other file holds the
\* model's text of every stage.
C1_BatchCount ==
  BatchDone =>
    LET el == EligibleOf(listing)
    IN /\ Len(results) = Len(el)
       /\ \A i \in 1..Len(el) :
            /\ results[i].name = el[i].name
            /\ Len(results[i].slots) = Len(prompts)
            /\ \A k \in 1..Len(prompts) :
                 results[i].slots[k] =
                   IF FailedFile(el[i].name)
                   THEN "Error: " \o FailureText(el[i].name)
                   ELSE GenuineText(el[i].name, prompts, k)

\* C1 witness: a three-step batch of two eligible files, one of them failed
C1_Witness ==
  /\ BatchDone
  /\ op = "process_directory_three_step"
  /\ Len(results) = 2
  /\ FailedFile(results[1].name)
  /\ ~FailedFile(results[2].name)
  /\ results[2].slots[3] = GenuineText(results[2].name, prompts, 3)

SlotsFor(f) ==
  IF op \in FileOps
  THEN (IF exc = NoExc THEN retval ELSE <<>>)
  ELSE LET I == {i \in 1..Len(results) : results[i].name = f}
       IN IF I = {} THEN <<>> ELSE results[CHOOSE i \in I : TRUE].slots

\* the files whose chain is over
Finished ==
  IF op \in FileOps
  THEN (IF pc = "done" THEN {file} ELSE {})
  ELSE {results[i].name : i \in 1..Len(results)}

\* C3 as stated: when stage 1 succeeded and a later stage failed, the file's
\* result still holds the stage-1 text, the failing stage's slot holds an
\* error placeholder and the other stages hold their outputs.
C3_StageIsolation ==
  top = "api" =>
    \A f \in Finished :
      (Len(prompts) >= 2 /\ StageOutcome(f, 1, "ok")
         /\ \E k \in 2..Len(prompts) : StageFailed(f, k)) =>
        /\ Len(SlotsFor(f)) = Len(prompts)
        /\ SlotsFor(f)[1] = GenuineText(f, prompts, 1)
        /\ \A k \in 2..Len(prompts) :
             /\ StageFailed(f, k) => StartsWith(SlotsFor(f)[k], "Error")
             /\ StageOutcome(f, k, "ok") => SlotsFor(f)[k] = GenuineText(f, prompts, k)

\* C4 as stated: in the three-step chain, once stage 1 succeeded, the
\* stage-3 call has been issued by the time the chain is over, whatever
\* stage 2 did.
C4_Stage3Issued ==
  top = "api" =>
    \A f \in Finished :
      (Len(prompts) = 3 /\ StageOutcome(f, 1, "ok")) =>
        \E i \in 1..Len(calls) : calls[i].file = f /\ calls[i].stage = 3

\* C5 as stated: once process_youtube_url is over for a downloaded file, the
\* temporary directory of the download is gone, whatever number of files the
\* fetch left in it.
C5_TempDirRemoved ==
  (top = "cli" /\ pc = "exit" /\ tmp.asset # "") => tmp.dir = "removed"

\* C6 as stated: when the download created its temporary directory and then
\* failed, the directory is gone when the run is over.
C6_TempDirRemovedOnFailure ==
  (top = "cli" /\ pc = "exit" /\ tmp.dir # "none" /\ tmp.asset = "") =>
    tmp.dir = "removed"

\* the members of Inputs that match a pattern of YouTubePatterns
UrlShaped == {"https://www.youtube.com/watch?v=abc", "http://youtu.be/x_1",
              "https://youtube.com/embed/Z-9", "http://www.youtube.com/v/q",
              "https://youtu.be/abc.mp3", "https://youtu.be/a b"}

\* the members of Inputs whose final component carries an audio extension
AudioPaths == {"song.mp3", "Song.MP3", "music/a.wav", "x.m4a", "e.Flac",
               "t.ogg", "u.aAc", "album.ogg"}

Classified == top = "classify" /\ pc = "classified"

\* C7: an input that is no URL is "file" when it names a regular file with
\* an audio extension in any letter case, "directory" when it names a
\* directory, and InvalidInputError otherwise.
C7_ClassifyPath ==
  (Classified /\ args.input \notin UrlShaped) =>
    IF fsKind = "file" /\ args.input \in AudioPaths
    THEN inputType = "file" /\ exc = NoExc
    ELSE IF fsKind = "dir"
    THEN inputType = "directory" /\ exc = NoExc
    ELSE inputType = "" /\ exc.type = "InvalidInputError"

\* C7 witness: an upper-case extension on a regular file
C7_Witness ==
  Classified /\ args.input = "Song.MP3" /\ fsKind = "file" /\ inputType = "file"

\* C8: an input of a recognized URL shape is "youtube", and no filesystem
\* check is made for it, whether or not a path of that name exists.
C8_UrlWithoutFilesystem ==
  (Classified /\ args.input \in UrlShaped) =>
    inputType = "youtube" /\ exc = NoExc /\ fsChecks = <<>>

\* C8 witness: a URL that also names an existing regular audio file
C8_Witness ==
  /\ Classified
  /\ args.input = "https://youtu.be/abc.mp3"
  /\ fsKind = "file"
  /\ inputType = "youtube"

\* C9: a batch runs the chain on the eligible entries only: every inference
\* call and every file read is for an eligible entry, the result names are
\* the eligible names in enumeration order, each once, and a directory
\* without an eligible entry gives no result and no call.
C9_OnlyEligible ==
  (top = "api" /\ op \in DirOps) =>
    LET el == NamesOf(EligibleOf(listing))
        E == {el[i] : i \in 1..Len(el)}
    IN /\ \A i \in 1..Len(calls) : calls[i].file \in E
       /\ \A d \in oracle : d.file \in E
       /\ \A i \in 1..Len(results) : results[i].name \in E
       /\ pc = "done" => NamesOf(results) = el
       /\ (pc = "done" /\ el = <<>>) => results = <<>> /\ calls = <<>>

\* C9 witness: a.mp3, b.txt, c.WAV gives the two entries a.mp3 and c.WAV
C9_Witness ==
  /\ BatchDone
  /\ NamesOf(listing) = <<"a.mp3", "b.txt", "c.WAV">>
  /\ NamesOf(results) = <<"a.mp3", "c.WAV">>

\* the members of RTFiles with an audio extension
RTAudio == {"a.mp3", "c.WAV", "e.Flac"}

RoundTripDone == top = "rt" /\ pc = "done" /\ first.set

\* C10 as stated: for every file and every outcome, process_file on the file
\* and process_directory on the directory holding only it give the same
\* stage-1 text.
C10_SameTextAlways ==
  RoundTripDone =>
    /\ first.exc = NoExc
    /\ Len(results) = 1
    /\ results[1].slots = first.ret

\* C10 amended: for every file with an audio extension, when the inference
\* call succeeds both give the same stage-1 text; when it fails process_file
\* raises AudioProcessingError and the batch entry holds "Error: " followed
\* by the message of that error.
C10_SameTextOnSuccess ==
  (RoundTripDone /\ file \in RTAudio) =>
    /\ Len(results) = 1
    /\ results[1].name = file
    /\ Len(results[1].slots) = 1
    /\ IF StageOutcome(file, 1, "ok")
       THEN /\ first.exc = NoExc
            /\ Len(first.ret) = 1
            /\ results[1].slots[1] = first.ret[1]
       ELSE /\ first.exc.type = "AudioProcessingError"
            /\ first.ret = <<>>
            /\ results[1].slots[1] = "Error: " \o first.exc.msg

\* C10 witness: both halves succeeded on c.WAV with the same text
C10_Witness ==
  /\ RoundTripDone
  /\ file = "c.WAV"
  /\ first.exc = NoExc
  /\ Len(results) = 1
  /\ results[1].slots = first.ret
  /\ first.ret # <<>>

\* C11: only the stage-1 call carries the audio; the text of a later call is
\* its own step prompt, the separator and the text the stage-1 call of the
\* same file returned, never the text of the stage-2 call.
C11_FanOut ==
  top = "api" =>
    \A i \in 1..Len(calls) :
      LET c == calls[i]
      IN IF c.stage = 1
         THEN c.contents.audio = c.file /\ c.contents.text = prompts[1]
         ELSE /\ c.contents.audio = ""
              /\ \E j \in 1..(i - 1) :
                   /\ calls[j].file = c.file
                   /\ calls[j].stage = 1
                   /\ calls[j].out = "ok"
                   /\ c.contents.text =
                        prompts[c.stage] \o "\n\nAnalysis to convert:\n"
                        \o Generate(calls[j].contents)
              /\ \A j \in 1..(i - 1) :
                   (calls[j].file = c.file /\ calls[j].stage = 2) =>
                     c.contents.text # prompts[c.stage] \o "\n\nAnalysis to convert:\n"
                                       \o Generate(calls[j].contents)

\* C11 witness: a three-step chain that issued its stage-3 call
C11_Witness ==
  /\ ChainDone
  /\ op = "process_file_three_step"
  /\ Len(calls) = 3
  /\ calls[3].stage = 3
  /\ calls[3].contents.audio = ""

\* what a member of CliInputs is, given what its path names
ClaimKind ==
  IF args.input = "https://youtu.be/abc" THEN "youtube"
  ELSE IF fsKind = "dir" THEN "directory"
  ELSE IF args.input = "song.mp3" /\ fsKind = "file" THEN "file"
  ELSE "invalid"

\* the run got as far as classifying its input
Processing ==
  /\ top = "cli"
  /\ ~args.list_prompts
  /\ args.input # None
  /\ env.api_key
  /\ env.client_ok

RunOver == top = "cli" /\ pc = "exit"

\* the status the claim gives a finished run: 0 for the listing and for a
\* run without error (a directory run always, a file or URL run whose
\* download, chain and cleanup all went through), 1 otherwise
ClaimedStatus ==
  IF args.list_prompts THEN 0
  ELSE IF ~Processing THEN 1
  ELSE IF ClaimKind = "invalid" THEN 1
  ELSE IF ClaimKind = "directory" THEN 0
  ELSE IF ClaimKind = "file" THEN (IF FailedFile("song.mp3") THEN 1 ELSE 0)
  ELSE IF tmp.asset = "" THEN 1
  ELSE IF FailedFile(tmp.asset) THEN 1
  ELSE IF tmp.dir = "removed" THEN 0
  ELSE 1

\* C12: a finished run has status 0 exactly when it only listed the
\* templates or went through without error, and status 1 on a configuration
\* error, an invalid input, a download failure and a processing failure of a
\* file or URL input; a directory run ends with 0 even when every file failed.
C12_ExitStatus ==
  /\ top = "cli" => (exitCode = -1 <=> pc # "exit")
  /\ RunOver =>
       /\ exitCode = ClaimedStatus
       /\ exitCode = 0 <=> err = <<>>

\* C12 witness: a directory run whose two files both failed ends with 0
C12_Witness ==
  /\ RunOver
  /\ ClaimKind = "directory"
  /\ Len(results) = 2
  /\ FailedFile(results[1].name)
  /\ FailedFile(results[2].name)
  /\ exitCode = 0

\* C13: a run started without the credential touches nothing of its input,
\* no filesystem check, no download, no inference call, and ends in
\* ConfigurationError.
C13_NoKeyNoInput ==
  (top = "cli" /\ ~args.list_prompts /\ args.input # None /\ ~env.api_key) =>
    /\ fsChecks = <<>>
    /\ inputType = ""
    /\ tmp.dir = "none"
    /\ calls = <<>>
    /\ oracle = {}
    /\ pc \in {"start", "setup", "handle", "exit"}
    /\ pc = "exit" =>
         /\ exc.type = "ConfigurationError"
         /\ err = <<"Configuration Error: GOOGLE_API_KEY environment variable not set">>
         /\ exitCode = 1

\* C13 witness: the run on an existing audio file ended without the key
C13_Witness ==
  /\ RunOver
  /\ ~env.api_key
  /\ args.input = "song.mp3"
  /\ fsKind = "file"
  /\ exc.type = "ConfigurationError"

\* the batch returned its list after enumerating the whole directory, every
\* eligible file having been handed to the chain
BatchComplete ==
  /\ pc = "done"
  /\ exc = NoExc
  /\ idx = Len(listing)
  /\ Len(results) = Len(EligibleOf(listing))
  /\ \A i \in 1..Len(listing) :
       (listing[i].kind = "file" /\ listing[i].name \in AudioNames) =>
         \E d \in oracle : d.file = listing[i].name /\ d.stage = 1

\* C14: a directory batch, once started, runs to completion whatever fails:
\* it reaches its return with the whole directory enumerated, every eligible
\* file processed and no exception raised.
C14_BatchCompletes ==
  []((top = "api" /\ op \in DirOps) => <>BatchComplete)

\* C14 witness: a three-step batch that processed a second file after the
\* first one failed at stage 2
C14_Witness ==
  /\ BatchDone
  /\ op = "process_directory_three_step"
  /\ Len(results) = 2
  /\ StageFailed(results[1].name, 2)
  /\ ~FailedFile(results[2].name)
  /\ idx = Len(listing)

\* the stage texts the claim's priority rule selects for the arguments
ClaimedStages ==
  IF args.prompt_type = "analyze" THEN <<"ANALYZE">>
  ELSE IF args.prompt_type = "eval" THEN <<"EVAL">>
  ELSE IF args.prompt_type = "suno" THEN <<"SUNO1", "SUNO2", "SUNO3">>
  ELSE IF args.prompt # None THEN <<args.prompt>>
  ELSE <<"ANALYZE">>

\* C15: once determine_prompt has run, the prompt in use is the template of
\* --prompt-type when one is given, even beside a custom string; else the
\* custom string; else the analyze template.  The audio call sends it.
C15_PromptPriority ==
  (Processing /\ pc \notin {"start", "setup", "prompt"}) =>
    /\ spec.data.stages = ClaimedStages
    /\ \A i \in 1..Len(calls) :
         calls[i].stage = 1 => calls[i].contents.text = ClaimedStages[1]

\* C15 witness: eval was asked beside a custom string, and EVAL was sent
C15_Witness ==
  /\ RunOver
  /\ args.prompt_type = "eval"
  /\ args.prompt = "custom"
  /\ Len(calls) = 1
  /\ calls[1].contents.text = "EVAL"

\* the input of the run is invalid: no URL shape and nothing at the path, or
\* something there that is neither an audio file nor a directory
InvalidInput ==
  /\ args.input \in {"song.mp3", "album", "notes.txt"}
  /\ \/ fsKind = "absent"
     \/ fsKind = "other"
     \/ fsKind = "file" /\ args.input \in {"album", "notes.txt"}

\* C16: a run on an invalid input makes no download and no inference call
\* at any point, and ends with InvalidInputError.
C16_InvalidInputAborts ==
  (Processing /\ InvalidInput) =>
    /\ calls = <<>>
    /\ oracle = {}
    /\ tmp.dir = "none"
    /\ results = <<>>
    /\ pc \in {"start", "setup", "prompt", "detect", "handle", "exit"}
    /\ pc \in {"handle", "exit"} => exc.type = "InvalidInputError"
    /\ pc = "exit" => exitCode = 1

\* C16 witness: an existing text file was refused and the run is over
C16_Witness ==
  /\ RunOver
  /\ Processing
  /\ args.input = "notes.txt"
  /\ fsKind = "file"
  /\ exc.type = "InvalidInputError"
  /\ calls = <<>>

Downloaded ==
  /\ top = "cli"
  /\ inputType = "youtube"
  /\ pc \notin {"start", "setup", "prompt", "detect", "dispatch", "download"}

\* C18: download_from_youtube ends in one of two ways.  Either it returned,
\* and the chain starts on a file that is in the temporary directory, which
\* exists; or it raised AudioDownloadError and no chain starts.  A directory
\* left empty by the fetch is never followed by a return.
C18_DownloadReturnsFileOrRaises ==
  Downloaded =>
    /\ ctx = "youtube" \/ (exc.type = "AudioDownloadError" /\ calls = <<>>)
    /\ ctx = "youtube" => tmp.asset # "" /\ file = tmp.asset
    /\ (ctx = "youtube" /\ pc = "stage1") =>
         /\ tmp.dir = "exists"
         /\ tmp.asset \in tmp.files
         /\ exc = NoExc
    /\ (ctx # "youtube" /\ tmp.dir = "exists" /\ tmp.files = {}) =>
         /\ tmp.asset = ""
         /\ exc.type = "AudioDownloadError"

\* C18 witness: the fetch completed on an empty directory and the error is
\* about to be reported
C18_Witness ==
  /\ Downloaded
  /\ pc = "handle"
  /\ tmp.dir = "exists"
  /\ tmp.files = {}
  /\ exc = Raise("AudioDownloadError", "No file was downloaded")

\* C19: in the two- and three-step chains a call of stage 2 or 3 is only
\* ever made for a file whose stage 1 succeeded, and its input is the text
\* stage 1 produced for that file: after a stage-1 failure nothing more is
\* sent for the file.
C19_NoCallAfterStage1Failure ==
  top = "api" =>
    /\ \A i \in 1..Len(calls) :
         calls[i].stage >= 2 =>
           /\ StageOutcome(calls[i].file, 1, "ok")
           /\ ~StageFailed(calls[i].file, 1)
           /\ calls[i].contents.text =
                prompts[calls[i].stage] \o SEP \o
                Generate(AudioContents(prompts[1], calls[i].file))
    /\ \A d \in oracle : d.stage >= 2 => ~StageFailed(d.file, 1)

\* C19 witness: a three-step chain on one file is over, its audio call
\* failed, and that call is the only one made
C19_Witness ==
  /\ ChainDone
  /\ op = "process_file_three_step"
  /\ StageOutcome(file, 1, "fail")
  /\ exc.type = "AudioProcessingError"
  /\ Len(calls) = 1
  /\ calls[1].stage = 1

\* the one line a run ends with on the error stream, and the nonzero status
ReportedAs(label) ==
  /\ Len(err) = 1
  /\ StartsWith(err[1], label \o ": ")
  /\ exitCode = 1

\* C20: a finished run that met a fatal error has reported it under the
\* label of its kind and ended with status 1: a missing key or a client
\* that cannot be built as Configuration Error, an invalid input as Input
\* Error, a failed download as Download Error, a failed chain on a file as
\* Processing Error; for a failed chain on a downloaded asset the temporary
\* directory is gone and the line is the Processing Error of that asset.
C20_ErrorsLabelled ==
  (RunOver /\ ~args.list_prompts /\ args.input # None) =>
    /\ ~(env.api_key /\ env.client_ok) => ReportedAs("Configuration Error")
    /\ (Processing /\ InvalidInput) => ReportedAs("Input Error")
    /\ (Processing /\ ClaimKind = "youtube" /\ tmp.asset = "") =>
         ReportedAs("Download Error")
    /\ (Processing /\ ClaimKind = "file" /\ FailedFile("song.mp3")) =>
         /\ ReportedAs("Processing Error")
         /\ err = <<"Processing Error: " \o FailureText("song.mp3")>>
    /\ (Processing /\ ClaimKind = "youtube" /\ tmp.asset # ""
          /\ FailedFile(tmp.asset)) =>
         /\ ReportedAs("Processing Error")
         /\ err = <<"Processing Error: " \o FailureText(tmp.asset)>>
         /\ tmp.dir = "removed"

\* the place of the entry named f in the enumeration
PosIn(names, f) == CHOOSE i \in 1..Len(names) : names[i].name = f

\* C21: the calls are made one after the other.  A call of stage k > 1
\* directly follows the successful call of stage k - 1 of the same file; a
\* first-stage call is only made when the chain of the file before it is
\* over (its last call failed or was the last stage); and in a batch the
\* files are called in enumeration order, never going back to an earlier one.
C21_Sequential ==
  top = "api" =>
    \A i \in 1..Len(calls) :
      /\ calls[i].stage \in 1..Len(prompts)
      /\ calls[i].stage > 1 =>
           /\ i > 1
           /\ calls[i - 1].file = calls[i].file
           /\ calls[i - 1].stage = calls[i].stage - 1
           /\ calls[i - 1].out = "ok"
      /\ (calls[i].stage = 1 /\ i > 1) =>
           /\ calls[i - 1].file # calls[i].file
           /\ calls[i - 1].out = "fail" \/ calls[i - 1].stage = Len(prompts)
      /\ op \in DirOps =>
           \A j \in 1..(i - 1) :
             PosIn(listing, calls[j].file) <= PosIn(listing, calls[i].file)

\* C21 witness: a three-step batch over two eligible files made all six calls
C21_Witness ==
  /\ BatchDone
  /\ op = "process_directory_three_step"
  /\ Len(calls) = 6
  /\ calls[3].file # calls[4].file

\* C22: at every point of a batch the filenames of the entries collected so
\* far are the eligible files among the entries enumerated so far, in the
\* order of the enumeration, whichever of them failed; at the end this is
\* the whole enumeration filtered to eligible files.
C22_EnumerationOrder ==
  (top = "api" /\ op \in DirOps) =>
    /\ NamesOf(results) = NamesOf(EligibleOf(SubSeq(listing, 1, idx)))
    /\ pc = "done" => NamesOf(results) = NamesOf(EligibleOf(listing))

\* C22 witness: the enumeration gave c.WAV before a.mp3, c.WAV failed, and
\* the result lists c.WAV first
C22_Witness ==
  /\ BatchDone
  /\ NamesOf(results) = <<"c.WAV", "a.mp3">>
  /\ FailedFile("c.WAV")
  /\ ~FailedFile("a.mp3")
  /\ Len(listing) = 3

\* the number of stages the batch operations are named after
StagesOf(o) ==
  IF o = "process_directory_two_step" THEN 2
  ELSE IF o = "process_directory_three_step" THEN 3
  ELSE 1

\* C23: in a two-step or three-step batch every entry collected has 2,
\* respectively 3, slots, whether its file succeeded or failed, and the
\* slots of a failed file all hold one string, the "Error: " placeholder.
C23_SlotShape ==
  (top = "api" /\ op \in {"process_directory_two_step", "process_directory_three_step"}) =>
    \A i \in 1..Len(results) :
      /\ Len(results[i].slots) = StagesOf(op)
      /\ FailedFile(results[i].name) =>
           \A k \in 1..StagesOf(op) :
             /\ results[i].slots[k] = results[i].slots[1]
             /\ StartsWith(results[i].slots[k], "Error: ")
      /\ ~FailedFile(results[i].name) =>
           \A k \in 1..StagesOf(op) : ~StartsWith(results[i].slots[k], "Error: ")

\* C23 witness: a two-step batch is over with one entry of a file that
\* failed at its second stage and one entry of a file that succeeded
C23_Witness ==
  /\ BatchDone
  /\ op = "process_directory_two_step"
  /\ Len(results) = 2
  /\ StageFailed(results[1].name, 2)
  /\ ~FailedFile(results[2].name)
  /\ results[1].slots[2] = "Error: " \o FailureText(results[1].name)

\* the stage count the claim gives the arguments: 3 for suno, 1 otherwise
ClaimedCount == IF args.prompt_type = "suno" THEN 3 ELSE 1

\* the processor method has been chosen in this run
Dispatched == top = "cli" /\ Processing /\ op # ""

DownloadsAt ==
  {i \in 1..Len(out) : StartsWith(out[i], "Downloading audio from YouTube URL: ")}

\* the places in the output where an audio call was announced
SendsAt ==
  {i \in 1..Len(out) : out[i] = "Sending audio to Gemini AI for analysis..."}

\* C25: a run downloads at most once, and only for a URL input; for a URL
\* input no inference call is made before the download has returned a file,
\* and none at all when it raised AudioDownloadError; a run on a file or a
\* directory leaves no trace of a download.
C25_DownloadOnlyForUrl ==
  top = "cli" =>
    /\ Cardinality(DownloadsAt) <= 1
    /\ args.input # "https://youtu.be/abc" =>
         /\ DownloadsAt = {}
         /\ tmp = [dir |-> "none", files |-> {}, asset |-> ""]
         /\ pc # "download"
    /\ args.input = "https://youtu.be/abc" =>
         /\ (calls # <<>> \/ oracle # {} \/ SendsAt # {}) =>
              /\ Cardinality(DownloadsAt) = 1
              /\ tmp.asset # ""
              /\ \A d \in DownloadsAt, s \in SendsAt : d < s
         /\ exc.type = "AudioDownloadError" =>
              /\ calls = <<>>
              /\ oracle = {}
              /\ SendsAt = {}

\* C25 witness: the one download of a URL run failed and the run is over
\* without an inference call
C25_Witness ==
  /\ RunOver
  /\ args.input = "https://youtu.be/abc"
  /\ Cardinality(DownloadsAt) = 1
  /\ exc.type = "AudioDownloadError"
  /\ calls = <<>>
  /\ exitCode = 1

\* process_audio_file_two_step has returned for the current file
LegacyPairReturned ==
  /\ top = "legacy"
  /\ op \in {"process_audio_file_two_step", "process_directory_two_step"}
  /\ pc \in {"legacy_print_url", "legacy_collect"}

\* C26: when the two-step function of gemini_cli.py returns for a file
\* whose first step failed, both places of the pair hold the error message
\* of that failure.
C26_LegacyPoison ==
  (LegacyPairReturned /\ StageFailed(file, 1)) =>
    retval = <<FailureText(file), FailureText(file)>>

\* C27: a run of gemini_cli.py on a URL never reaches the statements that
\* process a directory, and when its download, its calls and its cleanup all
\* went through it ends with status 0, nothing on the error stream, and one
\* pass of calls over the downloaded file.
C27_LegacyUrlEndsNormally ==
  (top = "legacy" /\ inputType = "youtube") =>
    /\ pc \notin {"legacy_dirmain", "legacy_iter", "legacy_collect", "legacy_print_dir"}
    /\ (pc = "exit" /\ tmp.asset # "" /\ tmp.dir = "removed"
          /\ ~FailedFile(tmp.asset)) =>
         /\ exitCode = 0
         /\ err = <<>>
         /\ Len(calls) = Len(prompts)
         /\ \A i \in 1..Len(calls) : calls[i].file = tmp.asset /\ calls[i].stage = i

\* what a step may do to the filesystem: nothing to the path given or to the
\* entries of the directory; nothing at all for a local input; and for a
\* URL input, remove from the temporary directory only the file the
\* download returned, and remove only the directory that download made
FrameStep ==
  top = "cli" =>
    /\ fsKind' = fsKind
    /\ listing' = listing
    /\ args.input # "https://youtu.be/abc" =>
         /\ tmp = [dir |-> "none", files |-> {}, asset |-> ""]
         /\ tmp' = tmp
    /\ (tmp.files \ tmp'.files) \subseteq {tmp.asset}
    /\ tmp.dir = "exists" => tmp'.files \subseteq tmp.files
    /\ (tmp.dir = "exists" /\ tmp'.dir # "exists") =>
         /\ tmp'.dir = "removed"
         /\ tmp.asset # ""
         /\ tmp.files = {tmp.asset}

\* C28: every step of every run keeps to FrameStep: a run on a local file
\* or on a directory deletes, creates and modifies nothing, and a run on a
\* URL removes nothing but its downloaded file and its temporary directory.
C28_CleanupConfined == [][FrameStep]_vars

\* C28 witness: a run on the local file song.mp3 failed and is over, with
\* the file still there and no temporary directory ever made
C28_Witness ==
  /\ RunOver
  /\ args.input = "song.mp3"
  /\ fsKind = "file"
  /\ FailedFile("song.mp3")
  /\ exitCode = 1
  /\ tmp.dir = "none"

\* the calls made so far for file f
CallsFor(f) == {i \in 1..Len(calls) : calls[i].file = f}

\* the most calls one file can get under operation o
MaxCalls(o) ==
  IF o \in {"process_file", "process_directory"} THEN 1
  ELSE IF o \in {"process_file_two_step", "process_directory_two_step"} THEN 2
  ELSE 3

\* C29: no stage of a file is sent twice, whatever failed: the calls of one
\* file have distinct stages, so a single-stage operation makes at most one
\* call per file, a two-step one at most two and a three-step one at most
\* three; a file whose audio could not be read gets none.
C29_NoRetry ==
  (top = "api" /\ op # "") =>
    /\ \A i, j \in 1..Len(calls) :
         (calls[i].file = calls[j].file /\ calls[i].stage = calls[j].stage) => i = j
    /\ \A f \in {e.name : e \in Entries} :
         /\ Cardinality(CallsFor(f)) <= MaxCalls(op)
         /\ StageOutcome(f, 1, "unreadable") => CallsFor(f) = {}
         /\ StageOutcome(f, 1, "fail") => Cardinality(CallsFor(f)) = 1
         /\ StageOutcome(f, 2, "fail") => Cardinality(CallsFor(f)) = 2

\* C29 witness: a three-step batch is over in which the first file failed at
\* its audio call and the second at its second call: three calls in all
C29_Witness ==
  /\ BatchDone
  /\ op = "process_directory_three_step"
  /\ Len(results) = 2
  /\ StageOutcome(results[1].name, 1, "fail")
  /\ StageOutcome(results[2].name, 2, "fail")
  /\ Len(calls) = 3

\* the chain on the downloaded file is over: it failed, or its last stage
\* has answered
UrlChainOver ==
  \/ FailedFile(tmp.asset)
  \/ /\ Len(calls) = ClaimedCount
     /\ \A i \in 1..Len(calls) : calls[i].file = tmp.asset /\ calls[i].out = "ok"

\* C30: in a run on a URL, while the chain on the downloaded file is still
\* running the file is in its directory; the file is gone, or the directory
\* is, only when the chain is over; and the directory is never gone with
\* the file still in it.
C30_AssetKeptWhileNeeded ==
  (top = "cli" /\ ctx = "youtube") =>
    /\ pc \in {"stage1", "stage2", "stage3", "finally"} =>
         /\ tmp.dir = "exists"
         /\ tmp.asset \in tmp.files
    /\ (tmp.asset \notin tmp.files \/ tmp.dir # "exists") =>
         /\ UrlChainOver
         /\ pc \in {"handle", "exit"}
    /\ tmp.dir = "removed" => tmp.files = {}
    /\ \A i \in 1..Len(calls) : calls[i].file = tmp.asset

\* C30 witness: a three-step run on a URL is over, all three calls were
\* answered, and the file and its directory are gone
C30_Witness ==
  /\ RunOver
  /\ ctx = "youtube"
  /\ Len(calls) = 3
  /\ ~FailedFile(tmp.asset)
  /\ tmp.dir = "removed"
  /\ exitCode = 0

====
